---- MODULE Spec2Model ----
(***************************************************************************)
(* Model of the MARG orientation pipeline: the three oversampling rate     *)
(* samplers and their bias calibration (HMC5843.cpp, main program part),   *)
(* and the MARGfilter object (MARGfilter.cpp).                             *)
(*                                                                         *)
(* Numbers.  A C++ double is modelled as a binary fixed-point number: the  *)
(* integer n stands for n / SCALE, and NaN is one distinguished value that *)
(* every operation propagates.  With SCALE = 2^10 the quantities the       *)
(* samplers compute before the gain is applied (sums of 16-bit integers,   *)
(* sum / 4, sum / 128) are exact, as they are in a double; products with   *)
(* non-dyadic constants and square roots are rounded to the resolution.    *)
(* atan2 and asin are library calls: their results are kept as terms.      *)
(***************************************************************************)
EXTENDS Integers, Sequences, FiniteSets, TLC

(***************************************************************************)
(* double arithmetic                                                       *)
(***************************************************************************)
SCALE == 1024

NaN == -2000000000

IsNaN(x) == x = NaN

Abs(n) == IF n < 0 THEN -n ELSE n

\* n / d rounded to the nearest integer, halves away from zero (d # 0).
RoundDiv(n, d) ==
    LET q == (Abs(n) + (Abs(d) \div 2)) \div Abs(d)
    IN  IF (n < 0) = (d < 0) THEN q ELSE -q

\* conversion of an int to double
FromInt(n) == n * SCALE

Neg(a) == IF IsNaN(a) THEN NaN ELSE -a

Add(a, b) == IF IsNaN(a) \/ IsNaN(b) THEN NaN ELSE a + b

Sub(a, b) == IF IsNaN(a) \/ IsNaN(b) THEN NaN ELSE a - b

Mul(a, b) == IF IsNaN(a) \/ IsNaN(b) THEN NaN ELSE RoundDiv(a * b, SCALE)

\* a / b.  0 / 0 is NaN.  Every zero divisor of the program is the Euclidean
\* norm of the vector the dividend belongs to, so the dividend is zero too;
\* x / 0 with x # 0 (an infinity in IEEE arithmetic) is mapped to NaN as well.
\* A divisor that is a whole number divides without the intermediate product.
Div(a, b) ==
    IF IsNaN(a) \/ IsNaN(b) THEN NaN
    ELSE IF b = 0 THEN NaN
    ELSE IF b % SCALE = 0 THEN RoundDiv(a, b \div SCALE)
    ELSE RoundDiv(a * SCALE, b)

RECURSIVE ISqrtBetween(_, _, _)
ISqrtBetween(n, lo, hi) ==
    IF lo = hi THEN lo
    ELSE LET mid == (lo + hi + 1) \div 2
         IN  IF mid * mid <= n THEN ISqrtBetween(n, mid, hi)
                               ELSE ISqrtBetween(n, lo, mid - 1)

\* floor of the square root of a natural number below 2^31
ISqrt(n) == ISqrtBetween(n, 0, 46340)

\* sqrt(x), x a double
Sqrt(x) ==
    IF IsNaN(x) THEN NaN
    ELSE IF x < 0 THEN NaN
    ELSE ISqrt(x * SCALE)

\* sqrt(x*x + y*y + ...): the sum of squares is formed at full width, so the
\* norm is zero exactly when every component is zero, as with doubles.
\* A vector whose sum of squares would not fit in 31 bits is divided by 64
\* first and its norm multiplied by 64.
RECURSIVE SumSq(_)
SumSq(v) == IF v = <<>> THEN 0 ELSE Head(v) * Head(v) + SumSq(Tail(v))

Norm(v) ==
    IF \E i \in 1..Len(v) : IsNaN(v[i]) THEN NaN
    ELSE IF SumSq([i \in 1..Len(v) |-> (Abs(v[i]) \div 512) + 1]) <= 8192
         THEN ISqrt(SumSq(v))
         ELSE 64 * ISqrt(SumSq([i \in 1..Len(v) |-> RoundDiv(v[i], 64)]))

Zero3 == <<0, 0, 0>>

Half == SCALE \div 2

Two == 2 * SCALE

(***************************************************************************)
(* Angles.  The results of atan2 and asin are not computed: an angle is    *)
(* the zero angle, NaN, or the term naming the library call and its        *)
(* arguments.  unit tells radians from degrees.                            *)
(***************************************************************************)
ZeroAngle == [unit |-> "rad", kind |-> "zero", y |-> 0, x |-> 0]

NaNAngle == [unit |-> "rad", kind |-> "nan", y |-> 0, x |-> 0]

\* atan2(y, x): atan2(0, x) is 0 for x >= 0 and pi for x < 0.
Atan2(y, x) ==
    IF IsNaN(y) \/ IsNaN(x) THEN NaNAngle
    ELSE IF y = 0 /\ x >= 0 THEN ZeroAngle
    ELSE [unit |-> "rad", kind |-> "atan2", y |-> y, x |-> x]

\* asin(v): NaN outside [-1, 1].
Asin(v) ==
    IF IsNaN(v) THEN NaNAngle
    ELSE IF v > SCALE \/ v < -SCALE THEN NaNAngle
    ELSE IF v = 0 THEN ZeroAngle
    ELSE [unit |-> "rad", kind |-> "asin", y |-> v, x |-> SCALE]

\* toDegrees(x): x * 57.2957795; zero stays zero, NaN stays NaN.
toDegrees(ang) == [ang EXCEPT !.unit = "deg"]

(***************************************************************************)
(* MARGfilter                                                              *)
(***************************************************************************)
PI == 3217

Identity4 == <<SCALE, 0, 0, 0>>

\* MARGfilter::MARGfilter(rate, gyroscopeMeasurementError,
\* gyroscopeMeasurementDrift).  phi, theta and psi are not assigned by the
\* constructor; the program's only instance is a global, whose storage is
\* zeroed before the constructor runs.
NewMARGfilter(rate, gyroscopeMeasurementError, gyroscopeMeasurementDrift) ==
    [ firstUpdate   |-> 0,
      AEq           |-> <<FromInt(1), 0, 0, 0>>,
      SEq           |-> <<FromInt(1), 0, 0, 0>>,
      deltat        |-> rate,
      gyroMeasError |-> gyroscopeMeasurementError,
      gyroMeasDrift |-> gyroscopeMeasurementDrift,
      b_x           |-> FromInt(1),
      b_z           |-> 0,
      w_bx          |-> 0,
      w_by          |-> 0,
      w_bz          |-> 0,
      beta          |-> Mul(Sqrt(Div(FromInt(3), FromInt(4))),
                            Mul(PI, Div(gyroscopeMeasurementError, FromInt(180)))),
      zeta          |-> Mul(Sqrt(Div(FromInt(3), FromInt(4))),
                            Mul(PI, Div(gyroscopeMeasurementDrift, FromInt(180)))),
      phi           |-> ZeroAngle,
      theta         |-> ZeroAngle,
      psi           |-> ZeroAngle ]

(***************************************************************************)
(* MARGfilter::updateFilter.  The function body is a straight line of      *)
(* assignments; it is modelled block by block, each block an operator on   *)
(* the record e of the member and local variables assigned so far.         *)
(***************************************************************************)
\* F applied to the value of x
Then(x, F(_)) == CHOOSE y \in {F(v) : v \in {x}} : TRUE

\* the members read, the arguments, and the locals declared with an
\* initialiser
Locals(f, w_x, w_y, w_z, a_x, a_y, a_z, m_x, m_y, m_z) ==
    [ firstUpdate |-> f.firstUpdate,
      AEq_1 |-> f.AEq[1], AEq_2 |-> f.AEq[2], AEq_3 |-> f.AEq[3],
      AEq_4 |-> f.AEq[4],
      SEq_1 |-> f.SEq[1], SEq_2 |-> f.SEq[2], SEq_3 |-> f.SEq[3],
      SEq_4 |-> f.SEq[4],
      b_x |-> f.b_x, b_z |-> f.b_z,
      w_bx |-> f.w_bx, w_by |-> f.w_by, w_bz |-> f.w_bz,
      deltat |-> f.deltat, beta |-> f.beta, zeta |-> f.zeta,
      w_x |-> w_x, w_y |-> w_y, w_z |-> w_z,
      a_x |-> a_x, a_y |-> a_y, a_z |-> a_z,
      m_x |-> m_x, m_y |-> m_y, m_z |-> m_z,
      halfSEq_1 |-> Mul(Half, f.SEq[1]),
      halfSEq_2 |-> Mul(Half, f.SEq[2]),
      halfSEq_3 |-> Mul(Half, f.SEq[3]),
      halfSEq_4 |-> Mul(Half, f.SEq[4]),
      twoSEq_1 |-> Mul(Two, f.SEq[1]),
      twoSEq_2 |-> Mul(Two, f.SEq[2]),
      twoSEq_3 |-> Mul(Two, f.SEq[3]),
      twoSEq_4 |-> Mul(Two, f.SEq[4]),
      twob_x |-> Mul(Two, f.b_x),
      twob_z |-> Mul(Two, f.b_z),
      twob_xSEq_1 |-> Mul(Mul(Two, f.b_x), f.SEq[1]),
      twob_xSEq_2 |-> Mul(Mul(Two, f.b_x), f.SEq[2]),
      twob_xSEq_3 |-> Mul(Mul(Two, f.b_x), f.SEq[3]),
      twob_xSEq_4 |-> Mul(Mul(Two, f.b_x), f.SEq[4]),
      twob_zSEq_1 |-> Mul(Mul(Two, f.b_z), f.SEq[1]),
      twob_zSEq_2 |-> Mul(Mul(Two, f.b_z), f.SEq[2]),
      twob_zSEq_3 |-> Mul(Mul(Two, f.b_z), f.SEq[3]),
      twob_zSEq_4 |-> Mul(Mul(Two, f.b_z), f.SEq[4]),
      SEq_1SEq_3 |-> Mul(f.SEq[1], f.SEq[3]),
      SEq_2SEq_4 |-> Mul(f.SEq[2], f.SEq[4]),
      twom_x |-> Mul(Two, m_x),
      twom_y |-> Mul(Two, m_y),
      twom_z |-> Mul(Two, m_z) ]

\* normalise the accelerometer measurement
NormaliseAccelerometer(e) ==
    LET norm == Norm(<<e.a_x, e.a_y, e.a_z>>)
    IN  [e EXCEPT !.a_x = Div(@, norm), !.a_y = Div(@, norm), !.a_z = Div(@, norm)]

\* normalise the magnetometer measurement
NormaliseMagnetometer(e) ==
    LET norm == Norm(<<e.m_x, e.m_y, e.m_z>>)
    IN  [e EXCEPT !.m_x = Div(@, norm), !.m_y = Div(@, norm), !.m_z = Div(@, norm)]

\* compute the objective function and Jacobian
Objective(e) ==
    e @@
    [ f_1 |-> Sub(Sub(Mul(e.twoSEq_2, e.SEq_4), Mul(e.twoSEq_1, e.SEq_3)), e.a_x),
      f_2 |-> Sub(Add(Mul(e.twoSEq_1, e.SEq_2), Mul(e.twoSEq_3, e.SEq_4)), e.a_y),
      f_3 |-> Sub(Sub(Sub(FromInt(1), Mul(e.twoSEq_2, e.SEq_2)),
                      Mul(e.twoSEq_3, e.SEq_3)), e.a_z),
      f_4 |-> Sub(Add(Mul(e.twob_x, Sub(Sub(Half, Mul(e.SEq_3, e.SEq_3)),
                                        Mul(e.SEq_4, e.SEq_4))),
                      Mul(e.twob_z, Sub(e.SEq_2SEq_4, e.SEq_1SEq_3))), e.m_x),
      f_5 |-> Sub(Add(Mul(e.twob_x, Sub(Mul(e.SEq_2, e.SEq_3),
                                        Mul(e.SEq_1, e.SEq_4))),
                      Mul(e.twob_z, Add(Mul(e.SEq_1, e.SEq_2),
                                        Mul(e.SEq_3, e.SEq_4)))), e.m_y),
      f_6 |-> Sub(Add(Mul(e.twob_x, Add(e.SEq_1SEq_3, e.SEq_2SEq_4)),
                      Mul(e.twob_z, Sub(Sub(Half, Mul(e.SEq_2, e.SEq_2)),
                                        Mul(e.SEq_3, e.SEq_3)))), e.m_z),
      J_11or24 |-> e.twoSEq_3,
      J_12or23 |-> Mul(Two, e.SEq_4),
      J_13or22 |-> e.twoSEq_1,
      J_14or21 |-> e.twoSEq_2,
      J_32 |-> Mul(Two, e.twoSEq_2),
      J_33 |-> Mul(Two, e.twoSEq_3),
      J_41 |-> e.twob_zSEq_3,
      J_42 |-> e.twob_zSEq_4,
      J_43 |-> Add(Mul(Two, e.twob_xSEq_3), e.twob_zSEq_1),
      J_44 |-> Sub(Mul(Two, e.twob_xSEq_4), e.twob_zSEq_2),
      J_51 |-> Sub(e.twob_xSEq_4, e.twob_zSEq_2),
      J_52 |-> Add(e.twob_xSEq_3, e.twob_zSEq_1),
      J_53 |-> Add(e.twob_xSEq_2, e.twob_zSEq_4),
      J_54 |-> Sub(e.twob_xSEq_1, e.twob_zSEq_3),
      J_61 |-> e.twob_xSEq_3,
      J_62 |-> Sub(e.twob_xSEq_4, Mul(Two, e.twob_zSEq_2)),
      J_63 |-> Sub(e.twob_xSEq_1, Mul(Two, e.twob_zSEq_3)),
      J_64 |-> e.twob_xSEq_2 ]

\* compute the gradient (matrix multiplication)
Gradient(e) ==
    e @@
    [ SEqHatDot_1 |->
          Add(Sub(Sub(Sub(Mul(e.J_14or21, e.f_2), Mul(e.J_11or24, e.f_1)),
                      Mul(e.J_41, e.f_4)), Mul(e.J_51, e.f_5)), Mul(e.J_61, e.f_6)),
      SEqHatDot_2 |->
          Add(Add(Add(Sub(Add(Mul(e.J_12or23, e.f_1), Mul(e.J_13or22, e.f_2)),
                          Mul(e.J_32, e.f_3)), Mul(e.J_42, e.f_4)),
                  Mul(e.J_52, e.f_5)), Mul(e.J_62, e.f_6)),
      SEqHatDot_3 |->
          Add(Add(Sub(Sub(Sub(Mul(e.J_12or23, e.f_2), Mul(e.J_33, e.f_3)),
                          Mul(e.J_13or22, e.f_1)), Mul(e.J_43, e.f_4)),
                  Mul(e.J_53, e.f_5)), Mul(e.J_63, e.f_6)),
      SEqHatDot_4 |->
          Add(Sub(Sub(Add(Mul(e.J_14or21, e.f_1), Mul(e.J_11or24, e.f_2)),
                      Mul(e.J_44, e.f_4)), Mul(e.J_54, e.f_5)), Mul(e.J_64, e.f_6)) ]

\* normalise the gradient to estimate direction of the gyroscope error
NormaliseGradient(e) ==
    LET norm == Norm(<<e.SEqHatDot_1, e.SEqHatDot_2, e.SEqHatDot_3, e.SEqHatDot_4>>)
    IN  [e EXCEPT !.SEqHatDot_1 = Div(@, norm), !.SEqHatDot_2 = Div(@, norm),
                  !.SEqHatDot_3 = Div(@, norm), !.SEqHatDot_4 = Div(@, norm)]

\* compute angular estimated direction of the gyroscope error
GyroscopeError(e) ==
    e @@
    [ w_err_x |-> Add(Sub(Sub(Mul(e.twoSEq_1, e.SEqHatDot_2),
                              Mul(e.twoSEq_2, e.SEqHatDot_1)),
                          Mul(e.twoSEq_3, e.SEqHatDot_4)),
                      Mul(e.twoSEq_4, e.SEqHatDot_3)),
      w_err_y |-> Sub(Sub(Add(Mul(e.twoSEq_1, e.SEqHatDot_3),
                              Mul(e.twoSEq_2, e.SEqHatDot_4)),
                          Mul(e.twoSEq_3, e.SEqHatDot_1)),
                      Mul(e.twoSEq_4, e.SEqHatDot_2)),
      w_err_z |-> Sub(Add(Sub(Mul(e.twoSEq_1, e.SEqHatDot_4),
                              Mul(e.twoSEq_2, e.SEqHatDot_3)),
                          Mul(e.twoSEq_3, e.SEqHatDot_2)),
                      Mul(e.twoSEq_4, e.SEqHatDot_1)) ]

\* compute the gyroscope biases
ComputeBias(e) ==
    [e EXCEPT !.w_bx = Add(@, Mul(Mul(e.w_err_x, e.deltat), e.zeta)),
              !.w_by = Add(@, Mul(Mul(e.w_err_y, e.deltat), e.zeta)),
              !.w_bz = Add(@, Mul(Mul(e.w_err_z, e.deltat), e.zeta))]

\* remove the gyroscope biases
RemoveBias(e) ==
    [e EXCEPT !.w_x = Sub(@, e.w_bx), !.w_y = Sub(@, e.w_by), !.w_z = Sub(@, e.w_bz)]

\* compute the quaternion rate measured by gyroscopes
QuaternionRate(e) ==
    e @@
    [ SEqDot_omega_1 |-> Sub(Sub(Mul(Neg(e.halfSEq_2), e.w_x),
                                 Mul(e.halfSEq_3, e.w_y)), Mul(e.halfSEq_4, e.w_z)),
      SEqDot_omega_2 |-> Sub(Add(Mul(e.halfSEq_1, e.w_x),
                                 Mul(e.halfSEq_3, e.w_z)), Mul(e.halfSEq_4, e.w_y)),
      SEqDot_omega_3 |-> Add(Sub(Mul(e.halfSEq_1, e.w_y),
                                 Mul(e.halfSEq_2, e.w_z)), Mul(e.halfSEq_4, e.w_x)),
      SEqDot_omega_4 |-> Sub(Add(Mul(e.halfSEq_1, e.w_z),
                                 Mul(e.halfSEq_2, e.w_y)), Mul(e.halfSEq_3, e.w_x)) ]

\* compute then integrate the estimated quaternion rate
Integrate(e) ==
    [e EXCEPT
        !.SEq_1 = Add(@, Mul(Sub(e.SEqDot_omega_1, Mul(e.beta, e.SEqHatDot_1)),
                             e.deltat)),
        !.SEq_2 = Add(@, Mul(Sub(e.SEqDot_omega_2, Mul(e.beta, e.SEqHatDot_2)),
                             e.deltat)),
        !.SEq_3 = Add(@, Mul(Sub(e.SEqDot_omega_3, Mul(e.beta, e.SEqHatDot_3)),
                             e.deltat)),
        !.SEq_4 = Add(@, Mul(Sub(e.SEqDot_omega_4, Mul(e.beta, e.SEqHatDot_4)),
                             e.deltat))]

\* normalise quaternion
NormaliseQuaternion(e) ==
    LET norm == Norm(<<e.SEq_1, e.SEq_2, e.SEq_3, e.SEq_4>>)
    IN  [e EXCEPT !.SEq_1 = Div(@, norm), !.SEq_2 = Div(@, norm),
                  !.SEq_3 = Div(@, norm), !.SEq_4 = Div(@, norm)]

\* recompute the auxiliary products of the quaternion's elements
Products(e) ==
    [e EXCEPT !.SEq_1SEq_3 = Mul(e.SEq_1, e.SEq_3),
              !.SEq_2SEq_4 = Mul(e.SEq_2, e.SEq_4)]
    @@
    [ SEq_1SEq_2 |-> Mul(e.SEq_1, e.SEq_2),
      SEq_1SEq_4 |-> Mul(e.SEq_1, e.SEq_4),
      SEq_3SEq_4 |-> Mul(e.SEq_3, e.SEq_4),
      SEq_2SEq_3 |-> Mul(e.SEq_2, e.SEq_3) ]

\* compute flux in the earth frame
Flux(e) ==
    e @@
    [ h_x |-> Add(Add(Mul(e.twom_x, Sub(Sub(Half, Mul(e.SEq_3, e.SEq_3)),
                                        Mul(e.SEq_4, e.SEq_4))),
                      Mul(e.twom_y, Sub(e.SEq_2SEq_3, e.SEq_1SEq_4))),
                  Mul(e.twom_z, Add(e.SEq_2SEq_4, e.SEq_1SEq_3))),
      h_y |-> Add(Add(Mul(e.twom_x, Add(e.SEq_2SEq_3, e.SEq_1SEq_4)),
                      Mul(e.twom_y, Sub(Sub(Half, Mul(e.SEq_2, e.SEq_2)),
                                        Mul(e.SEq_4, e.SEq_4)))),
                  Mul(e.twom_z, Sub(e.SEq_3SEq_4, e.SEq_1SEq_2))),
      h_z |-> Add(Add(Mul(e.twom_x, Sub(e.SEq_2SEq_4, e.SEq_1SEq_3)),
                      Mul(e.twom_y, Add(e.SEq_3SEq_4, e.SEq_1SEq_2))),
                  Mul(e.twom_z, Sub(Sub(Half, Mul(e.SEq_2, e.SEq_2)),
                                    Mul(e.SEq_3, e.SEq_3)))) ]

\* normalise the flux vector to have only components in the x and z
ReferenceFlux(e) ==
    [e EXCEPT !.b_x = Norm(<<e.h_x, e.h_y>>), !.b_z = e.h_z]

\* the auxiliary frame stored without recording that it was
StoreAuxiliaryFrameUnmarked(e) ==
    IF e.firstUpdate = 0
    THEN [e EXCEPT !.AEq_1 = e.SEq_1, !.AEq_2 = e.SEq_2, !.AEq_3 = e.SEq_3,
                   !.AEq_4 = e.SEq_4]
    ELSE e

\* the auxiliary frame stored by every update
StoreAuxiliaryFrameAlways(e) ==
    [e EXCEPT !.AEq_1 = e.SEq_1, !.AEq_2 = e.SEq_2, !.AEq_3 = e.SEq_3,
              !.AEq_4 = e.SEq_4, !.firstUpdate = 1]

\* if (firstUpdate == 0): store orientation of auxiliary frame
StoreAuxiliaryFrame(e) ==
    IF e.firstUpdate = 0
    THEN [e EXCEPT !.AEq_1 = e.SEq_1, !.AEq_2 = e.SEq_2, !.AEq_3 = e.SEq_3,
                   !.AEq_4 = e.SEq_4, !.firstUpdate = 1]
    ELSE e

\* the members of filter f as the function body e leaves them
Members(f, e) ==
    [f EXCEPT !.firstUpdate = e.firstUpdate,
              !.AEq = <<e.AEq_1, e.AEq_2, e.AEq_3, e.AEq_4>>,
              !.SEq = <<e.SEq_1, e.SEq_2, e.SEq_3, e.SEq_4>>,
              !.b_x = e.b_x, !.b_z = e.b_z,
              !.w_bx = e.w_bx, !.w_by = e.w_by, !.w_bz = e.w_bz]

\* the locals and members at the end of the function body
UpdateFilterBody(f, w_x, w_y, w_z, a_x, a_y, a_z, m_x, m_y, m_z) ==
    Then(Then(Then(Then(Then(Then(Then(Then(Then(Then(Then(Then(Then(Then(
        Locals(f, w_x, w_y, w_z, a_x, a_y, a_z, m_x, m_y, m_z),
        NormaliseAccelerometer), NormaliseMagnetometer), Objective), Gradient),
        NormaliseGradient), GyroscopeError), ComputeBias), RemoveBias),
        QuaternionRate), Integrate), NormaliseQuaternion), Products), Flux),
        ReferenceFlux)

\* MARGfilter::updateFilter: filter f after one update with the given
\* gyroscope, accelerometer and magnetometer readings
UpdateFilter(f, w_x, w_y, w_z, a_x, a_y, a_z, m_x, m_y, m_z) ==
    CHOOSE g \in
        { Members(f, StoreAuxiliaryFrame(e)) :
            e \in {UpdateFilterBody(f, w_x, w_y, w_z, a_x, a_y, a_z, m_x, m_y, m_z)} } :
        TRUE

\* the quaternion product q * r, as computeEuler writes it out
QuaternionProduct(q, r) ==
    << Sub(Sub(Sub(Mul(q[1], r[1]), Mul(q[2], r[2])),
               Mul(q[3], r[3])), Mul(q[4], r[4])),
       Sub(Add(Add(Mul(q[1], r[2]), Mul(q[2], r[1])),
               Mul(q[3], r[4])), Mul(q[4], r[3])),
       Add(Add(Sub(Mul(q[1], r[3]), Mul(q[2], r[4])),
               Mul(q[3], r[1])), Mul(q[4], r[2])),
       Add(Sub(Add(Mul(q[1], r[4]), Mul(q[2], r[3])),
               Mul(q[3], r[2])), Mul(q[4], r[1])) >>

\* a relative quaternion formed without conjugating SEq
RelativeQuaternionUnconjugated(f) == QuaternionProduct(f.SEq, f.AEq)

\* ASq_1..4: the quaternion conjugate ESq of SEq, multiplied by AEq
RelativeQuaternion(f) ==
    QuaternionProduct(<<f.SEq[1], Neg(f.SEq[2]), Neg(f.SEq[3]), Neg(f.SEq[4])>>,
                      f.AEq)

\* computeEuler with phi, theta and psi of the quaternion ASq
EulerOf(f, ASq) ==
    [f EXCEPT
        !.phi = Atan2(Sub(Mul(Mul(Two, ASq[3]), ASq[4]),
                          Mul(Mul(Two, ASq[1]), ASq[2])),
                      Sub(Add(Mul(Mul(Two, ASq[1]), ASq[1]),
                              Mul(Mul(Two, ASq[4]), ASq[4])), FromInt(1))),
        !.theta = Asin(Sub(Mul(Mul(Two, ASq[2]), ASq[3]),
                           Mul(Mul(Two, ASq[1]), ASq[3]))),
        !.psi = Atan2(Sub(Mul(Mul(Two, ASq[2]), ASq[3]),
                          Mul(Mul(Two, ASq[1]), ASq[4])),
                      Sub(Add(Mul(Mul(Two, ASq[1]), ASq[1]),
                              Mul(Mul(Two, ASq[2]), ASq[2])), FromInt(1)))]

\* a computeEuler that also takes the estimate as the new auxiliary frame
ComputeEulerRebasing(f) ==
    CHOOSE g \in {[EulerOf(f, ASq) EXCEPT !.AEq = f.SEq] :
                      ASq \in {RelativeQuaternion(f)}} : TRUE

\* MARGfilter::computeEuler
ComputeEuler(f) ==
    CHOOSE g \in {EulerOf(f, ASq) : ASq \in {RelativeQuaternion(f)}} : TRUE

\* MARGfilter::getRoll, getPitch, getYaw
getRoll(f) == f.phi

getPitch(f) == f.theta

getYaw(f) == f.psi

\* a reset that reconstructs the object without its tuning inputs
ResetForgetsGains(f) ==
    [NewMARGfilter(f.deltat, 0, 0) EXCEPT
        !.phi = f.phi, !.theta = f.theta, !.psi = f.psi]

\* a reset that leaves the reference flux as it is
ResetKeepsFlux(f) ==
    [f EXCEPT
        !.firstUpdate = 0,
        !.AEq = <<FromInt(1), 0, 0, 0>>,
        !.SEq = <<FromInt(1), 0, 0, 0>>,
        !.w_bx = 0,
        !.w_by = 0,
        !.w_bz = 0]

\* MARGfilter::reset
Reset(f) ==
    [f EXCEPT
        !.firstUpdate = 0,
        !.AEq = <<FromInt(1), 0, 0, 0>>,
        !.SEq = <<FromInt(1), 0, 0, 0>>,
        !.b_x = FromInt(1),
        !.b_z = 0,
        !.w_bx = 0,
        !.w_by = 0,
        !.w_bz = 0]

(***************************************************************************)
(* The main program: constants                                             *)
(***************************************************************************)
\* Number of samples to average.
SAMPLES == 4

\* Number of samples averaged for a null bias calculation.
CALIBRATION_SAMPLES == 128

\* Iterations of the magnetometer's calibration loop.
MAG_CALIBRATION_LOOPS == 20

\* Raw counts of 1 g at 4 mg/LSB, taken off the accelerometer's z bias.
GRAVITY_COUNTS == 250

\* Gains, as doubles: 1 / 14.375, 0.01745329252, 0.004 * 9.812865328, 1.0.
GYROSCOPE_GAIN == 71

TO_RADIANS == 18

ACCELEROMETER_GAIN == 40

MAGNETOMETER_GAIN == 1024

\* Periods of the tickers, in milliseconds.
GYRO_RATE == 5

ACC_RATE == 5

MAG_RATE == 100

FILTER_RATE == 100

\* The arguments of the margFilter constructor, as doubles: 0.1, 0.3, 0.0.
FilterDeltat == 102

GyroMeasError == 307

GyroMeasDrift == 0

\* The sensors, named by the prefix of their variables in the program,
\* and the tickers: one per sensor and "f" for the filter's.
Sensors == {"a", "w", "m"}

Tickers == {"a", "w", "m", "f"}

Period(t) ==
    CASE t = "a" -> ACC_RATE
      [] t = "w" -> GYRO_RATE
      [] t = "m" -> MAG_RATE
      [] t = "f" -> FILTER_RATE

(***************************************************************************)
(* The sensors.  A device at rest returns its rest triple; the triple of   *)
(* the one sensor whose signal varies in a behaviour (rich) may also be    *)
(* its other triple, in at most MaxDisturb reads of the behaviour.         *)
(***************************************************************************)
MaxDisturb == 1

RestOutput(s) ==
    CASE s = "a" -> <<4, -8, 252>>
      [] s = "w" -> <<3, -2, 1>>
      [] s = "m" -> <<2, -1, 1>>

OtherOutput(s) ==
    CASE s = "a" -> <<-12, 16, 236>>
      [] s = "w" -> <<103, -52, 41>>
      [] s = "m" -> <<-1, 2, 3>>

\* (int16_t) v
Int16(v) == ((v + 32768) % 65536) - 32768

\* (int)rx[0] << 8 | (int)rx[1] of HMC5843::readData, rx the two bytes of
\* the device's signed 16-bit value v and char unsigned as on the target
Word16(v) == v % 65536

\* three doubles plus three ints
Add3(acc, r) == <<Add(acc[1], FromInt(r[1])), Add(acc[2], FromInt(r[2])),
                  Add(acc[3], FromInt(r[3]))>>

\* acc /= n on the three axes
DivBy(acc, n) == <<Div(acc[1], FromInt(n)), Div(acc[2], FromInt(n)),
                   Div(acc[3], FromInt(n))>>

(***************************************************************************)
(* ITG3200: the gyroscope's registers, as the device keeps what is written *)
(***************************************************************************)
\* bitwise or of two bytes
RECURSIVE BitOr(_, _)
BitOr(a, b) ==
    IF a = 0 THEN b
    ELSE IF b = 0 THEN a
    ELSE (IF a % 2 = 1 \/ b % 2 = 1 THEN 1 ELSE 0) + 2 * BitOr(a \div 2, b \div 2)

\* #define LPFBW_256HZ 0x00 .. LPFBW_5HZ 0x06
LowPassCodes == 0..6

LPFBW_42HZ == 3

\* 0x03 << 3: FS_SEL sits in bits 4 and 3 of DLPF_FS
FS_SEL == 24

\* the registers after ITG3200::ITG3200: FS_SEL written into DLPF_FS, the
\* sample rate divider at its power-on value
NewITG3200 == [DLPF_FS |-> FS_SEL, SMPLRT_DIV |-> 0]

\* ITG3200::setLpBandwidth
setLpBandwidth(regs, bandwidth) ==
    [regs EXCEPT !.DLPF_FS = BitOr(bandwidth, FS_SEL)]

\* ITG3200::setSampleRateDivider
setSampleRateDivider(regs, divider) == [regs EXCEPT !.SMPLRT_DIV = divider]

\* ITG3200::getSampleRateDivider
getSampleRateDivider(regs) == regs.SMPLRT_DIV

\* ITG3200::getInternalSampleRate: rx is the whole DLPF_FS register
getInternalSampleRate(regs) ==
    IF regs.DLPF_FS = 0 THEN 8
    ELSE IF regs.DLPF_FS >= 1 /\ regs.DLPF_FS <= 7 THEN 1
    ELSE -1

\* initializeGyroscope
initializeGyroscope(regs) ==
    setSampleRateDivider(setLpBandwidth(regs, LPFBW_42HZ), 4)

(***************************************************************************)
(* State                                                                   *)
(***************************************************************************)
VARIABLES
    pc,           \* where main() is
    i,            \* the loop variable of the running calibration
    readings,     \* int readings[3], shared by accelerometer and magnetometer
    Accumulator,  \* a_xAccumulator .. m_zAccumulator, a triple per sensor
    Samples,      \* accelerometerSamples, gyroscopeSamples, magnetometerSamples
    Bias,         \* a_xBias .. m_zBias, a triple per sensor
    Reading,      \* a_x .. m_z, the averaged reading of each sensor
    margFilter,   \* the MARGfilter object
    roll,         \* roll.f, pitch.f, yaw.f of main()
    pitch,
    yaw,
    attached,     \* the tickers that have been attached
    due,          \* per ticker, milliseconds until its callback is due
    \* the environment
    writing,      \* per sensor, the axes its callback has written of the
                  \* average it is storing (0 when it is not storing one)
    registers,    \* the gyroscope's DLPF_FS and SMPLRT_DIV registers
    returned,     \* what the last ITG3200 getter called returned, or <<>>
    taking,       \* per sensor, its callback has read a sample into readings
                  \* and not yet added it to the sums
    rich,         \* the sensor whose signal varies
    disturbed,    \* reads that returned the other triple, late invocations
    \* history
    batch,        \* per sensor, the raw triples read since its last average
    calls,        \* per sensor, callback invocations since its last average
    gen,          \* per sensor, 0 until Reading is written, then 1, 2, 1, ..
    calSum,       \* per sensor, the sum of the raw triples read in calibration
    calReads,     \* per sensor, the number of reads in calibration
    calRuns,      \* per sensor, the number of calibrations started
    op,           \* the last MARGfilter member function called
    freshReset,   \* reset() was called and updateFilter() not since
    nCalls,       \* calls made by the client of the MARGfilter object
    args          \* <<w, a, m>> as passed to the last updateFilter(), or <<>>

sensorVars == <<readings, Accumulator, Samples, Bias, Reading>>

batchVars == <<batch, calls, gen>>

calVars == <<calSum, calReads, calRuns, disturbed>>

mainVars == <<pc, i, roll, pitch, yaw>>

filterVars == <<margFilter, op, freshReset, nCalls, args>>

tickerVars == <<attached, due>>

otherVars == <<rich, writing, returned, taking>>
vars == <<sensorVars, batchVars, calVars, mainVars, filterVars, tickerVars, otherVars,
          registers>>

\* What a read of sensor s may return.
Output(s) ==
    IF s = rich /\ disturbed < MaxDisturb
    THEN {RestOutput(s), OtherOutput(s)} ELSE {RestOutput(s)}

\* the count of disturbed reads after a read of sensor s that returned out
Disturbed(s, out) == IF out = RestOutput(s) THEN disturbed ELSE disturbed + 1

\* the globals of the program other than margFilter, at program start
InitGlobals ==
    /\ pc = "calibrateAccelerometer"
    /\ i = 0
    /\ readings = <<0, 0, 0>>
    /\ Accumulator = [s \in Sensors |-> Zero3]
    /\ Samples = [s \in Sensors |-> 0]
    /\ Bias = [s \in Sensors |-> Zero3]
    /\ Reading = [s \in Sensors |-> Zero3]
    /\ roll = toDegrees(ZeroAngle)
    /\ pitch = toDegrees(ZeroAngle)
    /\ yaw = toDegrees(ZeroAngle)
    /\ attached = {}
    /\ due = [t \in Tickers |-> 0]
    /\ writing = [s \in Sensors |-> 0]
    /\ taking = [s \in Sensors |-> FALSE]
    /\ registers = NewITG3200
    /\ returned = <<>>
    /\ rich \in Sensors
    /\ disturbed = 0
    /\ batch = [s \in Sensors |-> <<>>]
    /\ calls = [s \in Sensors |-> 0]
    /\ gen = [s \in Sensors |-> 0]
    /\ calSum = [s \in Sensors |-> <<0, 0, 0>>]
    /\ calReads = [s \in Sensors |-> 0]
    /\ calRuns = [s \in Sensors |-> 0]
    /\ op = "MARGfilter"
    /\ freshReset = FALSE
    /\ nCalls = 0
    /\ args = <<>>

Init ==
    /\ margFilter = NewMARGfilter(FilterDeltat, GyroMeasError, GyroMeasDrift)
    /\ InitGlobals

(***************************************************************************)
(* Calibration                                                             *)
(***************************************************************************)
\* history kept by a calibration read of sensor s that returned out
CalRead(s, out) ==
    /\ calSum' = [calSum EXCEPT ![s] = <<@[1] + out[1], @[2] + out[2], @[3] + out[3]>>]
    /\ calReads' = [calReads EXCEPT ![s] = @ + 1]
    /\ disturbed' = Disturbed(s, out)
    /\ calRuns' = calRuns

\* calibrateAccelerometer: entry, the accumulators are zeroed
CalibrateAccelerometerEnter ==
    /\ pc = "calibrateAccelerometer"
    /\ Accumulator' = [Accumulator EXCEPT !["a"] = Zero3]
    /\ i' = 0
    /\ pc' = "calibrateAccelerometer.for"
    /\ calRuns' = [calRuns EXCEPT !["a"] = @ + 1]
    /\ UNCHANGED <<readings, Samples, Bias, Reading, batchVars, calSum, calReads,
                   disturbed,
                   roll, pitch, yaw, filterVars, tickerVars, otherVars, registers>>

\* calibrateAccelerometer: one iteration of the loop
CalibrateAccelerometerSample ==
    /\ pc = "calibrateAccelerometer.for"
    /\ i < CALIBRATION_SAMPLES
    /\ \E out \in Output("a") :
          /\ readings' = out
          /\ Accumulator' = [Accumulator EXCEPT !["a"] =
                 Add3(@, <<Int16(out[1]), Int16(out[2]), Int16(out[3])>>)]
          /\ CalRead("a", out)
    /\ i' = i + 1
    /\ UNCHANGED <<pc, Samples, Bias, Reading, batchVars,
                   roll, pitch, yaw, filterVars, tickerVars, otherVars, registers>>

\* the bias calibrateAccelerometer stores, given the summed accumulators
AccelerometerBias(acc) ==
    LET avg == DivBy(acc, CALIBRATION_SAMPLES)
    IN  <<avg[1], avg[2], Sub(avg[3], FromInt(GRAVITY_COUNTS))>>

\* calibrateAccelerometer: after the loop
CalibrateAccelerometerFinish ==
    /\ pc = "calibrateAccelerometer.for"
    /\ ~(i < CALIBRATION_SAMPLES)
    /\ Bias' = [Bias EXCEPT !["a"] = AccelerometerBias(Accumulator["a"])]
    /\ Accumulator' = [Accumulator EXCEPT !["a"] = Zero3]
    /\ pc' = "calibrateGyroscope"
    /\ UNCHANGED <<i, readings, Samples, Reading, batchVars, calVars,
                   roll, pitch, yaw, filterVars, tickerVars, otherVars, registers>>

\* initializeGyroscope, then calibrateGyroscope: entry
CalibrateGyroscopeEnter ==
    /\ pc = "calibrateGyroscope"
    /\ Accumulator' = [Accumulator EXCEPT !["w"] = Zero3]
    /\ i' = 0
    /\ pc' = "calibrateGyroscope.for"
    /\ calRuns' = [calRuns EXCEPT !["w"] = @ + 1]
    /\ registers' = initializeGyroscope(registers)
    /\ UNCHANGED <<readings, Samples, Bias, Reading, batchVars, calSum, calReads,
                   disturbed,
                   roll, pitch, yaw, filterVars, tickerVars, otherVars>>

\* calibrateGyroscope: one iteration of the loop (getGyroX, getGyroY, getGyroZ)
CalibrateGyroscopeSample ==
    /\ pc = "calibrateGyroscope.for"
    /\ i < CALIBRATION_SAMPLES
    /\ \E out \in Output("w") :
          /\ Accumulator' = [Accumulator EXCEPT !["w"] =
                 Add3(@, <<Int16(out[1]), Int16(out[2]), Int16(out[3])>>)]
          /\ CalRead("w", out)
    /\ i' = i + 1
    /\ UNCHANGED <<pc, readings, Samples, Bias, Reading, batchVars,
                   roll, pitch, yaw, filterVars, tickerVars, otherVars, registers>>

\* the bias calibrateGyroscope stores
GyroscopeBias(acc) == DivBy(acc, CALIBRATION_SAMPLES)

\* calibrateGyroscope: after the loop
CalibrateGyroscopeFinish ==
    /\ pc = "calibrateGyroscope.for"
    /\ ~(i < CALIBRATION_SAMPLES)
    /\ Bias' = [Bias EXCEPT !["w"] = GyroscopeBias(Accumulator["w"])]
    /\ Accumulator' = [Accumulator EXCEPT !["w"] = Zero3]
    /\ pc' = "calibrateMagnetometer"
    /\ UNCHANGED <<i, readings, Samples, Reading, batchVars, calVars,
                   roll, pitch, yaw, filterVars, tickerVars, otherVars, registers>>

\* calibrateMagnetometer: entry
CalibrateMagnetometerEnter ==
    /\ pc = "calibrateMagnetometer"
    /\ Accumulator' = [Accumulator EXCEPT !["m"] = Zero3]
    /\ i' = 0
    /\ pc' = "calibrateMagnetometer.for"
    /\ calRuns' = [calRuns EXCEPT !["m"] = @ + 1]
    /\ UNCHANGED <<readings, Samples, Bias, Reading, batchVars, calSum, calReads,
                   disturbed,
                   roll, pitch, yaw, filterVars, tickerVars, otherVars, registers>>

\* calibrateMagnetometer: one iteration of the loop
CalibrateMagnetometerSample ==
    /\ pc = "calibrateMagnetometer.for"
    /\ i < MAG_CALIBRATION_LOOPS
    /\ \E out \in Output("m") :
          /\ readings' = <<Word16(out[1]), Word16(out[2]), Word16(out[3])>>
          /\ Accumulator' = [Accumulator EXCEPT !["m"] =
                 Add3(@, <<Int16(readings'[1]), Int16(readings'[2]),
                           Int16(readings'[3])>>)]
          /\ CalRead("m", out)
    /\ i' = i + 1
    /\ UNCHANGED <<pc, Samples, Bias, Reading, batchVars,
                   roll, pitch, yaw, filterVars, tickerVars, otherVars, registers>>

\* the bias calibrateMagnetometer stores
MagnetometerBias(acc) == DivBy(acc, CALIBRATION_SAMPLES)

\* calibrateMagnetometer: after the loop
CalibrateMagnetometerFinish ==
    /\ pc = "calibrateMagnetometer.for"
    /\ ~(i < MAG_CALIBRATION_LOOPS)
    /\ Bias' = [Bias EXCEPT !["m"] = MagnetometerBias(Accumulator["m"])]
    /\ Accumulator' = [Accumulator EXCEPT !["m"] = Zero3]
    /\ pc' = "attachAccelerometer"
    /\ UNCHANGED <<i, readings, Samples, Reading, batchVars, calVars,
                   roll, pitch, yaw, filterVars, tickerVars, otherVars, registers>>

(***************************************************************************)
(* The rate samplers                                                       *)
(***************************************************************************)
\* a sampler that averages one invocation early
EnoughSamplesEarly(n) == n = SAMPLES - 1

\* "Have we taken enough samples?"
EnoughSamples(n) == n = SAMPLES

\* history kept when sensor s writes its averaged reading
Emitted(s) ==
    /\ gen' = [gen EXCEPT ![s] = IF @ = 1 THEN 2 ELSE 1]
    /\ batch' = [batch EXCEPT ![s] = <<>>]
    /\ calls' = [calls EXCEPT ![s] = 0]
    /\ disturbed' = disturbed

\* history kept when sensor s is read and returns out
Taken(s, out) ==
    /\ gen' = gen
    /\ batch' = [batch EXCEPT ![s] = Append(@, out)]
    /\ calls' = [calls EXCEPT ![s] = @ + 1]
    /\ disturbed' = Disturbed(s, out)

\* ((a_xAccumulator / SAMPLES) - a_xBias) * ACCELEROMETER_GAIN, per axis
AccelerometerAverage(acc, bias) ==
    [k \in 1..3 |->
        Mul(Sub(Div(acc[k], FromInt(SAMPLES)), bias[k]), ACCELEROMETER_GAIN)]

\* an averaging invocation that counts itself as the first sample of the
\* next batch
AverageAccelerometerCountsItself ==
    /\ Reading' = [Reading EXCEPT !["a"] =
           AccelerometerAverage(Accumulator["a"], Bias["a"])]
    /\ Accumulator' = [Accumulator EXCEPT !["a"] = Zero3]
    /\ Samples' = [Samples EXCEPT !["a"] = 1]
    /\ readings' = readings
    /\ Emitted("a")

\* sampleAccelerometer, enough samples taken: average and start over
AverageAccelerometer ==
    /\ Reading' = [Reading EXCEPT !["a"] =
           AccelerometerAverage(Accumulator["a"], Bias["a"])]
    /\ Accumulator' = [Accumulator EXCEPT !["a"] = Zero3]
    /\ Samples' = [Samples EXCEPT !["a"] = 0]
    /\ readings' = readings
    /\ Emitted("a")

\* sampleAccelerometer, otherwise: take another sample
TakeAccelerometer ==
    \E out \in Output("a") :
        /\ readings' = out
        /\ Accumulator' = [Accumulator EXCEPT !["a"] =
               Add3(@, <<Int16(readings'[1]), Int16(readings'[2]),
                         Int16(readings'[3])>>)]
        /\ Samples' = [Samples EXCEPT !["a"] = @ + 1]
        /\ Reading' = Reading
        /\ Taken("a", out)

\* the callback of accelerometerTicker
SampleAccelerometer ==
    /\ "a" \in attached
    /\ due["a"] = 0
    /\ due' = [due EXCEPT !["a"] = Period("a")]
    /\ IF EnoughSamples(Samples["a"]) THEN AverageAccelerometer ELSE TakeAccelerometer
    /\ UNCHANGED <<Bias, calSum, calReads, calRuns, mainVars, filterVars,
                   attached, otherVars, registers>>

\* a gyroscope average left in degrees per second
GyroscopeAverageDegrees(acc, bias) ==
    [k \in 1..3 |->
        Mul(Sub(Div(acc[k], FromInt(SAMPLES)), bias[k]), GYROSCOPE_GAIN)]

\* toRadians(((w_xAccumulator / SAMPLES) - w_xBias) * GYROSCOPE_GAIN), per axis
GyroscopeAverage(acc, bias) ==
    [k \in 1..3 |->
        Mul(Mul(Sub(Div(acc[k], FromInt(SAMPLES)), bias[k]), GYROSCOPE_GAIN),
            TO_RADIANS)]

\* sampleGyroscope, enough samples taken
AverageGyroscope ==
    /\ Reading' = [Reading EXCEPT !["w"] =
           GyroscopeAverage(Accumulator["w"], Bias["w"])]
    /\ Accumulator' = [Accumulator EXCEPT !["w"] = Zero3]
    /\ Samples' = [Samples EXCEPT !["w"] = 0]
    /\ readings' = readings
    /\ Emitted("w")

\* sampleGyroscope, otherwise
TakeGyroscope ==
    \E out \in Output("w") :
        /\ Accumulator' = [Accumulator EXCEPT !["w"] =
               Add3(@, <<Int16(out[1]), Int16(out[2]), Int16(out[3])>>)]
        /\ Samples' = [Samples EXCEPT !["w"] = @ + 1]
        /\ UNCHANGED <<readings, Reading>>
        /\ Taken("w", out)

\* a gyroscope callback that takes each average as the new null bias
SampleGyroscopeTracksBias ==
    /\ "w" \in attached
    /\ due["w"] = 0
    /\ due' = [due EXCEPT !["w"] = Period("w")]
    /\ IF EnoughSamples(Samples["w"])
       THEN /\ AverageGyroscope
            /\ Bias' = [Bias EXCEPT !["w"] = DivBy(Accumulator["w"], SAMPLES)]
       ELSE /\ TakeGyroscope
            /\ Bias' = Bias
    /\ UNCHANGED <<calSum, calReads, calRuns, mainVars, filterVars,
                   attached, otherVars, registers>>

\* the callback of gyroscopeTicker
SampleGyroscope ==
    /\ "w" \in attached
    /\ due["w"] = 0
    /\ due' = [due EXCEPT !["w"] = Period("w")]
    /\ IF EnoughSamples(Samples["w"]) THEN AverageGyroscope ELSE TakeGyroscope
    /\ UNCHANGED <<Bias, calSum, calReads, calRuns, mainVars, filterVars,
                   attached, otherVars, registers>>

\* ((m_xAccumulator / SAMPLES) - m_xBias) * MAGNETOMETER_GAIN, per axis
MagnetometerAverage(acc, bias) ==
    [k \in 1..3 |->
        Mul(Sub(Div(acc[k], FromInt(SAMPLES)), bias[k]), MAGNETOMETER_GAIN)]

\* a magnetometer average that starts over without clearing the z sum
AverageMagnetometerKeepsSum ==
    /\ Reading' = [Reading EXCEPT !["m"] =
           MagnetometerAverage(Accumulator["m"], Bias["m"])]
    /\ Accumulator' = [Accumulator EXCEPT !["m"] = <<0, 0, @[3]>>]
    /\ Samples' = [Samples EXCEPT !["m"] = 0]
    /\ readings' = readings
    /\ Emitted("m")

\* sampleMagnetometer, enough samples taken
AverageMagnetometer ==
    /\ Reading' = [Reading EXCEPT !["m"] =
           MagnetometerAverage(Accumulator["m"], Bias["m"])]
    /\ Accumulator' = [Accumulator EXCEPT !["m"] = Zero3]
    /\ Samples' = [Samples EXCEPT !["m"] = 0]
    /\ readings' = readings
    /\ Emitted("m")

\* sampleMagnetometer, otherwise
TakeMagnetometer ==
    \E out \in Output("m") :
        /\ readings' = <<Word16(out[1]), Word16(out[2]), Word16(out[3])>>
        /\ Accumulator' = [Accumulator EXCEPT !["m"] =
               Add3(@, <<Int16(readings'[1]), Int16(readings'[2]),
                         Int16(readings'[3])>>)]
        /\ Samples' = [Samples EXCEPT !["m"] = @ + 1]
        /\ Reading' = Reading
        /\ Taken("m", out)

\* the callback of magnetometerTicker
SampleMagnetometer ==
    /\ "m" \in attached
    /\ due["m"] = 0
    /\ due' = [due EXCEPT !["m"] = Period("m")]
    /\ IF EnoughSamples(Samples["m"]) THEN AverageMagnetometer ELSE TakeMagnetometer
    /\ UNCHANGED <<Bias, calSum, calReads, calRuns, mainVars, filterVars,
                   attached, otherVars, registers>>

\* filter(), the callback of filterTicker: updateFilter with the x and y
\* readings exchanged, then computeEuler
Filter ==
    /\ "f" \in attached
    /\ due["f"] = 0
    /\ due' = [due EXCEPT !["f"] = Period("f")]
    /\ margFilter' = ComputeEuler(UpdateFilter(margFilter,
           Reading["w"][2], Reading["w"][1], Reading["w"][3],
           Reading["a"][2], Reading["a"][1], Reading["a"][3],
           Reading["m"][2], Reading["m"][1], Reading["m"][3]))
    /\ args' = << <<Reading["w"][2], Reading["w"][1], Reading["w"][3]>>,
                  <<Reading["a"][2], Reading["a"][1], Reading["a"][3]>>,
                  <<Reading["m"][2], Reading["m"][1], Reading["m"][3]>> >>
    /\ op' = "computeEuler"
    /\ freshReset' = FALSE
    /\ UNCHANGED <<sensorVars, batchVars, calVars, mainVars, nCalls, attached, otherVars, registers>>

(***************************************************************************)
(* main(): attaching the tickers, then the output loop                     *)
(***************************************************************************)
\* ticker.attach(callback, period) for ticker t, main() going on to next
Attach(t, next) ==
    /\ attached' = attached \cup {t}
    /\ due' = [due EXCEPT ![t] = Period(t)]
    /\ pc' = next
    /\ UNCHANGED <<i, roll, pitch, yaw, sensorVars, batchVars, calVars,
                   filterVars, otherVars, registers>>

AttachAccelerometer == pc = "attachAccelerometer" /\ Attach("a", "attachGyroscope")

AttachGyroscope == pc = "attachGyroscope" /\ Attach("w", "attachMagnetometer")

AttachMagnetometer == pc = "attachMagnetometer" /\ Attach("m", "attachFilter")

\* a main() that calibrates the magnetometer again once the tickers run
AttachFilterThenCalibrate == pc = "attachFilter" /\ Attach("f", "calibrateMagnetometer")

AttachFilter == pc = "attachFilter" /\ Attach("f", "wait")

\* the pc values of the while (1) loop
LoopPcs == {"wait", "getRoll", "getPitch", "getYaw", "printf"}

\* wait(FILTER_RATE)
Wait ==
    /\ pc = "wait"
    /\ pc' = "getRoll"
    /\ UNCHANGED <<i, roll, pitch, yaw, sensorVars, batchVars, calVars,
                   filterVars, tickerVars, otherVars, registers>>

\* roll.f = (float)toDegrees(margFilter.getRoll())
ReadRoll ==
    /\ pc = "getRoll"
    /\ roll' = toDegrees(getRoll(margFilter))
    /\ pc' = "getPitch"
    /\ UNCHANGED <<i, pitch, yaw, sensorVars, batchVars, calVars,
                   filterVars, tickerVars, otherVars, registers>>

\* pitch.f = (float)toDegrees(margFilter.getPitch())
ReadPitch ==
    /\ pc = "getPitch"
    /\ pitch' = toDegrees(getPitch(margFilter))
    /\ pc' = "getYaw"
    /\ UNCHANGED <<i, roll, yaw, sensorVars, batchVars, calVars,
                   filterVars, tickerVars, otherVars, registers>>

\* yaw.f = (float)toDegrees(margFilter.getYaw())
ReadYaw ==
    /\ pc = "getYaw"
    /\ yaw' = toDegrees(getYaw(margFilter))
    /\ pc' = "printf"
    /\ UNCHANGED <<i, roll, pitch, sensorVars, batchVars, calVars,
                   filterVars, tickerVars, otherVars, registers>>

\* pc.printf(...)
Printf ==
    /\ pc = "printf"
    /\ pc' = "wait"
    /\ UNCHANGED <<i, roll, pitch, yaw, sensorVars, batchVars, calVars,
                   filterVars, tickerVars, otherVars, registers>>

\* Time passes until the next callback is due.  The four attach calls are
\* consecutive statements, far shorter than the shortest period, so no time
\* passes between them; a callback that is due runs before time moves on.
MinDue == CHOOSE d \in {due[t] : t \in Tickers} : \A t \in Tickers : d <= due[t]

Tick ==
    /\ pc \in LoopPcs
    /\ \A t \in Tickers : due[t] > 0
    /\ due' = [t \in Tickers |-> due[t] - MinDue]
    /\ UNCHANGED <<sensorVars, batchVars, calVars, mainVars, filterVars,
                   attached, otherVars, registers>>

Next ==
    \/ CalibrateAccelerometerEnter
    \/ CalibrateAccelerometerSample
    \/ CalibrateAccelerometerFinish
    \/ CalibrateGyroscopeEnter
    \/ CalibrateGyroscopeSample
    \/ CalibrateGyroscopeFinish
    \/ CalibrateMagnetometerEnter
    \/ CalibrateMagnetometerSample
    \/ CalibrateMagnetometerFinish
    \/ AttachAccelerometer
    \/ AttachGyroscope
    \/ AttachMagnetometer
    \/ AttachFilter
    \/ SampleAccelerometer
    \/ SampleGyroscope
    \/ SampleMagnetometer
    \/ Filter
    \/ Wait
    \/ ReadRoll
    \/ ReadPitch
    \/ ReadYaw
    \/ Printf
    \/ Tick

Spec == Init /\ [][Next]_vars

\* ---------------------------------------------------------------------------
\* The sampler callbacks statement by statement. The periodic trigger only
\* promises that a callback is not invoked again while it is still running:
\* a callback of another ticker may run between two statements of a sampler.
\* ---------------------------------------------------------------------------

\* the average sensor s stores: the right-hand sides of its three assignments
Average(s) ==
    IF s = "a" THEN AccelerometerAverage(Accumulator["a"], Bias["a"])
    ELSE IF s = "w" THEN GyroscopeAverage(Accumulator["w"], Bias["w"])
    ELSE MagnetometerAverage(Accumulator["m"], Bias["m"])

\* One assignment of the branch "enough samples taken" of the sampler of s:
\* x, then y, then z; the sums and the count are cleared with the last one.
StoreAxis(s) ==
    /\ s \in attached
    /\ IF writing[s] = 0
       THEN /\ due[s] = 0
            /\ EnoughSamples(Samples[s])
            /\ due' = [due EXCEPT ![s] = Period(s)]
       ELSE due' = due
    /\ Reading' = [Reading EXCEPT ![s][writing[s] + 1] = Average(s)[writing[s] + 1]]
    /\ IF writing[s] < 2
       THEN /\ writing' = [writing EXCEPT ![s] = @ + 1]
            /\ UNCHANGED <<Accumulator, Samples, batchVars, disturbed>>
       ELSE /\ writing' = [writing EXCEPT ![s] = 0]
            /\ Accumulator' = [Accumulator EXCEPT ![s] = Zero3]
            /\ Samples' = [Samples EXCEPT ![s] = 0]
            /\ Emitted(s)
    /\ UNCHANGED <<readings, Bias, calSum, calReads, calRuns, mainVars,
                   filterVars, attached, rich, returned, taking, registers>>

StoreAccelerometerAxis == StoreAxis("a")

StoreGyroscopeAxis == StoreAxis("w")

StoreMagnetometerAxis == StoreAxis("m")

\* the branch "take another sample" of each sampler, in one step
SampleAccelerometerTake ==
    /\ ~EnoughSamples(Samples["a"])
    /\ SampleAccelerometer

SampleGyroscopeTake ==
    /\ ~EnoughSamples(Samples["w"])
    /\ SampleGyroscope

SampleMagnetometerTake ==
    /\ ~EnoughSamples(Samples["m"])
    /\ SampleMagnetometer

\* time passes between callbacks
TickBetweenCallbacks ==
    /\ \A s \in Sensors : writing[s] = 0
    /\ Tick

NextPreempt ==
    \/ CalibrateAccelerometerEnter
    \/ CalibrateAccelerometerSample
    \/ CalibrateAccelerometerFinish
    \/ CalibrateGyroscopeEnter
    \/ CalibrateGyroscopeSample
    \/ CalibrateGyroscopeFinish
    \/ CalibrateMagnetometerEnter
    \/ CalibrateMagnetometerSample
    \/ CalibrateMagnetometerFinish
    \/ AttachAccelerometer
    \/ AttachGyroscope
    \/ AttachMagnetometer
    \/ AttachFilter
    \/ SampleAccelerometerTake
    \/ SampleGyroscopeTake
    \/ SampleMagnetometerTake
    \/ StoreAccelerometerAxis
    \/ StoreGyroscopeAxis
    \/ StoreMagnetometerAxis
    \/ Filter
    \/ Wait
    \/ ReadRoll
    \/ ReadPitch
    \/ ReadYaw
    \/ Printf
    \/ TickBetweenCallbacks

\* the accelerometer is the sensor whose signal varies
InitPreempt == Init /\ rich = "a"

SpecPreempt == InitPreempt /\ [][NextPreempt]_vars

\* ---------------------------------------------------------------------------
\* Bus faults. HMC5843::readData ignores what i2c_->write and i2c_->read
\* return and has no way to report a failure; when the transfers fail its
\* buffer rx is left as it was, never initialised, and the three axes are
\* all built from those two bytes.
\* ---------------------------------------------------------------------------

\* (int)rx[0] << 8 | (int)rx[1] for the bytes a failed read may leave in rx
Leftover == {0, 65535}

\* sampleMagnetometer, "take another sample", when the bus transfers fail
SampleMagnetometerFault ==
    /\ "m" \in attached
    /\ due["m"] = 0
    /\ ~EnoughSamples(Samples["m"])
    /\ disturbed < MaxDisturb
    /\ due' = [due EXCEPT !["m"] = Period("m")]
    /\ \E rx \in Leftover :
          /\ readings' = <<rx, rx, rx>>
          /\ Accumulator' = [Accumulator EXCEPT !["m"] =
                 Add3(@, <<Int16(readings'[1]), Int16(readings'[2]),
                           Int16(readings'[3])>>)]
    /\ Samples' = [Samples EXCEPT !["m"] = @ + 1]
    /\ calls' = [calls EXCEPT !["m"] = @ + 1]
    /\ disturbed' = disturbed + 1
    /\ UNCHANGED <<Reading, Bias, batch, gen, calSum, calReads, calRuns,
                   mainVars, filterVars, attached, otherVars, registers>>

\* the magnetometer is the sensor whose signal varies
InitFault == Init /\ rich = "m"

NextFault ==
    \/ Next
    \/ SampleMagnetometerFault

SpecFault == InitFault /\ [][NextFault]_vars

\* ---------------------------------------------------------------------------
\* The shared buffer. sampleAccelerometer and sampleMagnetometer both read
\* into the global int readings[3] and then add (int16_t) readings[0..2] to
\* their own sums. Here the branch "take another sample" of the two is two
\* steps, the read and the additions, and the callback of another ticker may
\* run between them; no callback runs while itself is running. A ticker
\* invokes its callback at approximately its period: the magnetometer's may
\* be invoked late, by the time until the next callback is due, and its next
\* invocation is due one period after the time this one was due.
\* ---------------------------------------------------------------------------

\* accelerometer.getOutput(readings) or magnetometer.readData(readings): the
\* first statement of the branch "take another sample" of the sampler of s
ReadIntoReadings(s) ==
    /\ s \in attached
    /\ due[s] <= 0
    /\ ~taking[s]
    /\ ~EnoughSamples(Samples[s])
    /\ due' = [due EXCEPT ![s] = Period(s) + due[s]]
    /\ \E out \in Output(s) :
          /\ readings' = IF s = "m"
                         THEN <<Word16(out[1]), Word16(out[2]), Word16(out[3])>>
                         ELSE out
          /\ batch' = [batch EXCEPT ![s] = Append(@, out)]
          /\ disturbed' = Disturbed(s, out)
    /\ taking' = [taking EXCEPT ![s] = TRUE]
    /\ UNCHANGED <<Accumulator, Samples, Reading, Bias, calls, gen, calSum,
                   calReads, calRuns, mainVars, filterVars, attached, rich,
                   writing, returned, registers>>

\* the three additions and the count: the rest of the branch
AddReadings(s) ==
    /\ taking[s]
    /\ Accumulator' = [Accumulator EXCEPT ![s] =
           Add3(@, <<Int16(readings[1]), Int16(readings[2]),
                     Int16(readings[3])>>)]
    /\ Samples' = [Samples EXCEPT ![s] = @ + 1]
    /\ calls' = [calls EXCEPT ![s] = @ + 1]
    /\ taking' = [taking EXCEPT ![s] = FALSE]
    /\ UNCHANGED <<readings, Reading, Bias, batch, gen, disturbed, calSum,
                   calReads, calRuns, mainVars, filterVars, attached, due,
                   rich, writing, returned, registers>>

ReadAccelerometer == ReadIntoReadings("a")

AddAccelerometerReadings == AddReadings("a")

ReadMagnetometer == ReadIntoReadings("m")

AddMagnetometerReadings == AddReadings("m")

\* the branch "enough samples taken" of the two samplers, in one step
SampleAccelerometerAverage ==
    /\ EnoughSamples(Samples["a"])
    /\ SampleAccelerometer

SampleMagnetometerAverage ==
    /\ EnoughSamples(Samples["m"])
    /\ SampleMagnetometer

\* time passes between callbacks
TickBetweenSamples ==
    /\ \A s \in Sensors : ~taking[s]
    /\ Tick

\* the time until the next callback other than the magnetometer's is due
MinDueOthers ==
    CHOOSE d \in {due[t] : t \in Tickers \ {"m"}} :
        \A t \in Tickers \ {"m"} : d <= due[t]

\* time passes while the magnetometer's callback is due to take a sample;
\* a late invocation is counted with the disturbed reads
MagnetometerTickerLate ==
    /\ pc \in LoopPcs
    /\ \A s \in Sensors : ~taking[s]
    /\ due["m"] = 0
    /\ ~EnoughSamples(Samples["m"])
    /\ \A t \in Tickers \ {"m"} : due[t] > 0
    /\ disturbed < MaxDisturb
    /\ disturbed' = disturbed + 1
    /\ due' = [t \in Tickers |-> due[t] - MinDueOthers]
    /\ UNCHANGED <<sensorVars, batchVars, calSum, calReads, calRuns, mainVars,
                   filterVars, attached, otherVars, registers>>

NextShared ==
    \/ CalibrateAccelerometerEnter
    \/ CalibrateAccelerometerSample
    \/ CalibrateAccelerometerFinish
    \/ CalibrateGyroscopeEnter
    \/ CalibrateGyroscopeSample
    \/ CalibrateGyroscopeFinish
    \/ CalibrateMagnetometerEnter
    \/ CalibrateMagnetometerSample
    \/ CalibrateMagnetometerFinish
    \/ AttachAccelerometer
    \/ AttachGyroscope
    \/ AttachMagnetometer
    \/ AttachFilter
    \/ ReadAccelerometer
    \/ AddAccelerometerReadings
    \/ ReadMagnetometer
    \/ AddMagnetometerReadings
    \/ SampleAccelerometerAverage
    \/ SampleMagnetometerAverage
    \/ SampleGyroscope
    \/ Filter
    \/ Wait
    \/ ReadRoll
    \/ ReadPitch
    \/ ReadYaw
    \/ Printf
    \/ TickBetweenSamples
    \/ MagnetometerTickerLate

\* the magnetometer is the sensor whose signal varies
InitShared == Init /\ rich = "m"

SpecShared == InitShared /\ [][NextShared]_vars

(***************************************************************************)
(* The MARGfilter object under an arbitrary client: any sequence of at     *)
(* most MaxCalls calls of updateFilter, computeEuler and reset.            *)
(***************************************************************************)
MaxCalls == 5

\* The readings a client passes to updateFilter: <<w, a, m>>, in rad/s,
\* m/s/s and flux units; at rest and level, tilted one way and turning,
\* tilted the other way and turning, in free fall (a zero accelerometer
\* vector), and with no field measured (a zero magnetometer vector).
FilterInputs ==
    { << <<0, 0, 0>>,         <<0, 0, 10045>>,       <<1024, 0, 0>> >>,
      << <<512, -256, 1024>>, <<-1024, 3072, 9216>>, <<307, -614, -819>> >>,
      << <<-307, 717, 0>>,    <<3072, -2048, 9216>>, <<614, 307, -819>> >>,
      << <<0, 102, 0>>,       <<0, 0, 0>>,           <<1024, 0, 0>> >>,
      << <<0, 0, 0>>,         <<0, 0, 10045>>,       <<0, 0, 0>> >> }

pipelineVars == <<sensorVars, batchVars, calVars, mainVars, tickerVars, otherVars, registers>>

CallUpdateFilter ==
    /\ nCalls < MaxCalls
    /\ \E in \in FilterInputs :
          /\ margFilter' = UpdateFilter(margFilter,
                 in[1][1], in[1][2], in[1][3],
                 in[2][1], in[2][2], in[2][3],
                 in[3][1], in[3][2], in[3][3])
          /\ args' = in
    /\ op' = "updateFilter"
    /\ freshReset' = FALSE
    /\ nCalls' = nCalls + 1
    /\ UNCHANGED pipelineVars

CallComputeEuler ==
    /\ nCalls < MaxCalls
    /\ margFilter' = ComputeEuler(margFilter)
    /\ op' = "computeEuler"
    /\ nCalls' = nCalls + 1
    /\ UNCHANGED <<freshReset, args, pipelineVars>>

CallReset ==
    /\ nCalls < MaxCalls
    /\ margFilter' = Reset(margFilter)
    /\ op' = "reset"
    /\ freshReset' = TRUE
    /\ nCalls' = nCalls + 1
    /\ args' = args
    /\ UNCHANGED pipelineVars

\* the client keeps the angle a getter returns, in degrees
CallGetRoll ==
    /\ nCalls < MaxCalls
    /\ roll' = toDegrees(getRoll(margFilter))
    /\ op' = "getRoll"
    /\ nCalls' = nCalls + 1
    /\ UNCHANGED <<margFilter, freshReset, args, pc, i, pitch, yaw, sensorVars,
                   batchVars, calVars, tickerVars, otherVars, registers>>

CallGetPitch ==
    /\ nCalls < MaxCalls
    /\ pitch' = toDegrees(getPitch(margFilter))
    /\ op' = "getPitch"
    /\ nCalls' = nCalls + 1
    /\ UNCHANGED <<margFilter, freshReset, args, pc, i, roll, yaw, sensorVars,
                   batchVars, calVars, tickerVars, otherVars, registers>>

CallGetYaw ==
    /\ nCalls < MaxCalls
    /\ yaw' = toDegrees(getYaw(margFilter))
    /\ op' = "getYaw"
    /\ nCalls' = nCalls + 1
    /\ UNCHANGED <<margFilter, freshReset, args, pc, i, roll, pitch, sensorVars,
                   batchVars, calVars, tickerVars, otherVars, registers>>

InitFilter == Init /\ rich = "a"

NextFilter ==
    \/ CallUpdateFilter
    \/ CallComputeEuler
    \/ CallReset
    \/ CallGetRoll
    \/ CallGetPitch
    \/ CallGetYaw

SpecFilter == InitFilter /\ [][NextFilter]_vars

\* ---------------------------------------------------------------------------
\* computeEuler on a filter whose estimate equals its auxiliary frame, as
\* the first update leaves it: SEq = AEq = q for the unit quaternions q in
\* the directions with integer components of magnitude up to MaxComponent.
\* ---------------------------------------------------------------------------

MaxComponent == 2

Directions ==
    { v \in [1..4 -> (-MaxComponent)..MaxComponent] : \E k \in 1..4 : v[k] # 0 }

\* v / |v|
Unit(v) ==
    [k \in 1..4 |->
        Div(FromInt(v[k]),
            Norm(<<FromInt(v[1]), FromInt(v[2]), FromInt(v[3]), FromInt(v[4])>>))]

UnitQuaternions == { Unit(v) : v \in Directions }

InitEuler ==
    /\ \E q \in UnitQuaternions :
          margFilter = [NewMARGfilter(FilterDeltat, GyroMeasError, GyroMeasDrift)
                           EXCEPT !.SEq = q, !.AEq = q, !.firstUpdate = 1]
    /\ InitGlobals
    /\ rich = "a"

NextEuler ==
    \/ CallComputeEuler

SpecEuler == InitEuler /\ [][NextEuler]_vars

\* computeEuler on an estimate SEq and an auxiliary frame AEq that differ:
\* every unit quaternion of UnitQuaternions against four auxiliary frames
AuxiliaryFrames ==
    { Unit(v) : v \in { <<1, 0, 0, 0>>, <<1, 1, 0, 0>>,
                        <<-1, 1, 1, 0>>, <<1, -1, 1, 1>> } }

InitRelative ==
    /\ \E p \in UnitQuaternions : \E q \in AuxiliaryFrames :
          margFilter = [NewMARGfilter(FilterDeltat, GyroMeasError, GyroMeasDrift)
                           EXCEPT !.SEq = p, !.AEq = q, !.firstUpdate = 1]
    /\ InitGlobals
    /\ rich = "a"

NextRelative ==
    \/ CallComputeEuler

SpecRelative == InitRelative /\ [][NextRelative]_vars

\* ---------------------------------------------------------------------------
\* A client of the ITG3200 object: any MaxCalls calls of the functions that
\* write and read the DLPF_FS and SMPLRT_DIV registers.
\* ---------------------------------------------------------------------------

\* the dividers a client passes to setSampleRateDivider
Dividers == {0, 4, 9}

deviceVars == <<sensorVars, batchVars, calVars, mainVars, tickerVars,
                margFilter, freshReset, args, rich, writing, taking>>

CallSetLpBandwidth ==
    /\ nCalls < MaxCalls
    /\ \E bandwidth \in LowPassCodes :
          registers' = setLpBandwidth(registers, bandwidth)
    /\ op' = "setLpBandwidth"
    /\ nCalls' = nCalls + 1
    /\ UNCHANGED <<returned, deviceVars>>

CallSetSampleRateDivider ==
    /\ nCalls < MaxCalls
    /\ \E divider \in Dividers :
          registers' = setSampleRateDivider(registers, divider)
    /\ op' = "setSampleRateDivider"
    /\ nCalls' = nCalls + 1
    /\ UNCHANGED <<returned, deviceVars>>

CallGetSampleRateDivider ==
    /\ nCalls < MaxCalls
    /\ returned' = getSampleRateDivider(registers)
    /\ op' = "getSampleRateDivider"
    /\ nCalls' = nCalls + 1
    /\ UNCHANGED <<registers, deviceVars>>

CallGetInternalSampleRate ==
    /\ nCalls < MaxCalls
    /\ returned' = getInternalSampleRate(registers)
    /\ op' = "getInternalSampleRate"
    /\ nCalls' = nCalls + 1
    /\ UNCHANGED <<registers, deviceVars>>

InitGyroscope == Init /\ rich = "w"

NextGyroscope ==
    \/ CallSetLpBandwidth
    \/ CallSetSampleRateDivider
    \/ CallGetSampleRateDivider
    \/ CallGetInternalSampleRate

SpecGyroscope == InitGyroscope /\ [][NextGyroscope]_vars

(***************************************************************************)
(* Properties of the rate samplers                                         *)
(***************************************************************************)
\* the callback of sensor s runs in this step
Invoked(s) == calls'[s] # calls[s]

\* the callback of sensor s writes its averaged reading in this step
Emits(s) == gen'[s] # gen[s]

\* C1, as stated: the sampler call that adds the 4th raw sample of a batch
\* itself produces the averaged reading and resets the accumulator.
C1_FourthSampleEmits ==
    [][\A s \in Sensors :
          (Len(batch[s]) = SAMPLES - 1 /\ Len(batch'[s]) # Len(batch[s]))
              => (Emits(s) /\ Samples'[s] = 0 /\ Accumulator'[s] = Zero3)]_vars

\* C1, amended: the call that adds the 4th raw sample of a batch leaves the
\* count at 4 and writes no reading; the averaged reading is written, and the
\* accumulator reset, by the next invocation of the callback, which reads no
\* sample.  A reading is written only by an invocation that follows exactly 4
\* sample-taking invocations, for each sensor and every batch.
C1_FifthCallEmits ==
    [][\A s \in Sensors :
          /\ (Samples[s] = SAMPLES - 1 /\ Invoked(s))
                 => /\ ~Emits(s)
                    /\ Reading'[s] = Reading[s]
                    /\ Samples'[s] = SAMPLES
                    /\ Len(batch'[s]) = SAMPLES
          /\ (calls[s] = SAMPLES /\ Invoked(s))
                 => /\ Emits(s)
                    /\ Samples'[s] = 0
                    /\ Accumulator'[s] = Zero3
                    /\ disturbed' = disturbed
                    /\ readings' = readings
          /\ Emits(s) => (calls[s] = SAMPLES /\ Len(batch[s]) = SAMPLES)
          /\ (Invoked(s) /\ calls[s] < SAMPLES)
                 => (~Emits(s) /\ Len(batch'[s]) = Len(batch[s]) + 1)]_vars

\* every sensor has written its second averaged reading and holds the first
\* three samples of its third batch
C1_Witness == \A s \in Sensors : gen[s] = 2 /\ Samples[s] = SAMPLES - 1

\* the sum, axis by axis, of a sequence of raw triples
RECURSIVE RawSum(_)
RawSum(b) ==
    IF b = <<>> THEN <<0, 0, 0>>
    ELSE LET r == RawSum(Tail(b))
         IN  <<Head(b)[1] + r[1], Head(b)[2] + r[2], Head(b)[3] + r[3]>>

\* the gain of sensor s applied to x: 0.004 * g0 for the accelerometer,
\* 1 / 14.375 and then degrees to radians for the gyroscope, 1.0 for the
\* magnetometer
Gain(s, x) ==
    CASE s = "a" -> Mul(x, ACCELEROMETER_GAIN)
      [] s = "w" -> Mul(Mul(x, GYROSCOPE_GAIN), TO_RADIANS)
      [] s = "m" -> Mul(x, MAGNETOMETER_GAIN)

\* C2: every averaged reading written to a sensor's slot is
\* ((S / N) - bias) * gain per axis, S the sum of exactly the N = 4 raw
\* samples read since the previous reading was written (or since the
\* sampler was armed); and whenever the sample count of an armed sampler is
\* k, its running sums are the sum of the last k raw samples read.
C2_AverageOfBatch ==
    /\ [](\A s \in attached \cap Sensors :
              /\ Samples[s] = Len(batch[s])
              /\ \A k \in 1..3 : Accumulator[s][k] = FromInt(RawSum(batch[s])[k]))
    /\ [][\A s \in Sensors :
              Emits(s) =>
                  /\ Len(batch[s]) = SAMPLES
                  /\ \A k \in 1..3 :
                         Reading'[s][k] =
                             Gain(s, Sub(Div(FromInt(RawSum(batch[s])[k]),
                                             FromInt(SAMPLES)),
                                         Bias[s][k]))]_vars

\* a sensor has written the average of a batch that holds its other triple,
\* after a calibration over rest triples only
C2_Witness ==
    \E s \in Sensors :
        /\ rich = s
        /\ disturbed = 1
        /\ calSum[s][1] = calReads[s] * RestOutput(s)[1]
        /\ gen[s] = 1
        /\ batch[s] = <<>>
        /\ Reading[s] # Zero3

\* C3: once a sampler is armed its sample count is in 0 .. N, and the step
\* that zeroes the count zeroes the running sums: no state has count 0 and
\* non-zero sums.
C3_CountAndSums ==
    /\ [](\A s \in attached \cap Sensors :
              /\ Samples[s] \in 0..SAMPLES
              /\ Samples[s] = 0 => Accumulator[s] = Zero3)
    /\ [][\A s \in attached \cap Sensors :
              (Samples[s] # 0 /\ Samples'[s] = 0) => Accumulator'[s] = Zero3]_vars

\* the magnetometer has just started over for the second time, with non-zero
\* sums before; the accelerometer holds a full batch
C3_Witness ==
    /\ gen["m"] = 2
    /\ Samples["m"] = 0
    /\ Samples["a"] = SAMPLES
    /\ Accumulator["a"] # Zero3
    /\ Reading["m"] # Zero3

(***************************************************************************)
(* Properties of the calibration                                           *)
(***************************************************************************)
\* where main() is while it calibrates sensor s
CalibrationOf(s) ==
    CASE s = "a" -> {"calibrateAccelerometer", "calibrateAccelerometer.for"}
      [] s = "w" -> {"calibrateGyroscope", "calibrateGyroscope.for"}
      [] s = "m" -> {"calibrateMagnetometer", "calibrateMagnetometer.for"}

\* the calibration of sensor s has run and returned
Calibrated(s) == calRuns[s] > 0 /\ pc \notin CalibrationOf(s)

\* the counts subtracted from the mean to give the bias of axis k of sensor s
Offset(s, k) == IF s = "a" /\ k = 3 THEN FromInt(GRAVITY_COUNTS) ELSE 0

\* C4, as stated: after the calibration of a sensor its bias is, per axis,
\* the arithmetic mean of the samples taken in that calibration (their sum
\* divided by the number of loop iterations), the accelerometer z axis alone
\* reduced by 250 counts.
C4_BiasIsMean ==
    \A s \in Sensors :
        Calibrated(s) =>
            \A k \in 1..3 :
                (Bias[s][k] + Offset(s, k)) * calReads[s] = FromInt(calSum[s][k])

\* C5: once the calibration of a sensor has finished, no step changes its
\* bias.
C5_BiasFrozen ==
    [][\A s \in Sensors : Calibrated(s) => Bias'[s] = Bias[s]]_vars

\* every sensor has written two averaged readings with a non-zero bias, the
\* filter has run, and main() is printing
C5_Witness ==
    /\ \A s \in Sensors : Calibrated(s) /\ gen[s] = 2 /\ Bias[s] # Zero3
    /\ margFilter.firstUpdate = 1
    /\ pc = "printf"

\* C6: each sensor is calibrated exactly once, and its calibration has
\* returned before its sampler is armed: no calibration of a sensor runs
\* while that sensor's sampler is attached.
C6_CalibratedOnceBeforeArmed ==
    \A s \in Sensors :
        /\ calRuns[s] <= 1
        /\ s \in attached => (calRuns[s] = 1 /\ Calibrated(s))
        /\ pc \in CalibrationOf(s) => s \notin attached
        /\ pc \in LoopPcs => (calRuns[s] = 1 /\ s \in attached)

\* the three samplers are armed and have each been invoked, after three
\* calibrations that read their sensors
C6_Witness ==
    /\ \A s \in Sensors : s \in attached /\ calls[s] > 0 /\ calRuns[s] = 1
    /\ calReads["a"] = CALIBRATION_SAMPLES
    /\ calReads["w"] = CALIBRATION_SAMPLES
    /\ calReads["m"] = MAG_CALIBRATION_LOOPS

(***************************************************************************)
(* Properties of the MARGfilter object                                     *)
(***************************************************************************)
\* the member function called in this step
Called(name) == nCalls' = nCalls + 1 /\ op' = name

\* no component of quaternion q is NaN
Finite4(q) == \A k \in 1..4 : ~IsNaN(q[k])

\* the orientation state of filter f
OrientationState(f) ==
    <<f.SEq, f.AEq, f.w_bx, f.w_by, f.w_bz, f.b_x, f.b_z, f.firstUpdate>>

\* C7: the filter is uninitialised (firstUpdate = 0) after construction and
\* after reset; the first updateFilter after either sets firstUpdate to 1 and
\* leaves AEq equal to the SEq that update ends with.
C7_FirstUpdateStoresFrame ==
    /\ [](op \in {"MARGfilter", "reset"} => margFilter.firstUpdate = 0)
    /\ [](freshReset => margFilter.firstUpdate = 0)
    /\ [][(Called("updateFilter") /\ margFilter.firstUpdate = 0)
              => /\ margFilter'.firstUpdate = 1
                 /\ margFilter'.AEq = margFilter'.SEq]_vars
    /\ [][(Called("computeEuler") /\ margFilter.firstUpdate = 0)
              => margFilter'.firstUpdate = 0]_vars

\* after earlier calls, a first update has stored a frame that is finite and
\* not the identity
C7_Witness ==
    /\ op = "updateFilter"
    /\ nCalls >= 3
    /\ margFilter.firstUpdate = 1
    /\ margFilter.AEq = margFilter.SEq
    /\ Finite4(margFilter.AEq)
    /\ margFilter.AEq # Identity4

\* C8: once the filter is tracking, updateFilter and computeEuler leave AEq
\* as it is; AEq changes only in reset and in the first update after
\* construction or reset.
C8_FrameFixedWhileTracking ==
    /\ [][(margFilter.firstUpdate = 1 /\ ~Called("reset"))
              => margFilter'.AEq = margFilter.AEq]_vars
    /\ [][margFilter'.AEq # margFilter.AEq
              => \/ Called("reset")
                 \/ Called("updateFilter") /\ margFilter.firstUpdate = 0]_vars

\* a later update has moved SEq away from the stored frame
C8_Witness ==
    /\ op = "updateFilter"
    /\ margFilter.firstUpdate = 1
    /\ Finite4(margFilter.SEq)
    /\ Finite4(margFilter.AEq)
    /\ margFilter.AEq # margFilter.SEq
    /\ margFilter.AEq # Identity4

\* C9: reset leaves SEq = AEq = (1,0,0,0), a zero gyroscope bias, b_x = 1,
\* b_z = 0 and firstUpdate = 0, the orientation state the constructor
\* leaves; a second reset changes nothing.
C9_ResetRestoresConstruction ==
    [][Called("reset")
          => /\ margFilter'.SEq = Identity4
             /\ margFilter'.AEq = Identity4
             /\ <<margFilter'.w_bx, margFilter'.w_by, margFilter'.w_bz>> = Zero3
             /\ margFilter'.b_x = FromInt(1)
             /\ margFilter'.b_z = 0
             /\ margFilter'.firstUpdate = 0
             /\ OrientationState(margFilter') =
                    OrientationState(NewMARGfilter(FilterDeltat, GyroMeasError,
                                                   GyroMeasDrift))
             /\ Reset(margFilter') = margFilter']_vars

\* reset has run on a filter whose updates had moved the reference flux and
\* whose Euler angles had been computed
C9_Witness ==
    /\ op = "reset"
    /\ nCalls >= 4
    /\ margFilter.b_x = FromInt(1)
    /\ margFilter.phi # ZeroAngle
    /\ margFilter.phi # NaNAngle

\* the angle is a number
Defined(ang) == ang.kind # "nan"

\* C10, as stated, where the angles reported are numbers: after reset with no
\* update since, getRoll, getPitch and getYaw report (0, 0, 0).
C10_ResetZeroesEuler ==
    (/\ freshReset
     /\ Defined(getRoll(margFilter))
     /\ Defined(getPitch(margFilter))
     /\ Defined(getYaw(margFilter)))
        => /\ getRoll(margFilter) = ZeroAngle
           /\ getPitch(margFilter) = ZeroAngle
           /\ getYaw(margFilter) = ZeroAngle


\* ---------------------------------------------------------------------------
\* Numerical robustness of updateFilter
\* ---------------------------------------------------------------------------

\* The arguments of an updateFilter call are valid: the accelerometer and the
\* magnetometer vectors are non-zero (every gyro rate of the model is finite).
ValidInput(in) == in # <<>> /\ in[2] # Zero3 /\ in[3] # Zero3

\* q is finite and of unit norm, up to the rounding of its four components
\* to multiples of 1/SCALE.
UnitNorm(q) == Finite4(q) /\ Abs(Norm(q) - SCALE) <= 2

\* C11: for all valid inputs (non-zero accelerometer and magnetometer vectors,
\* finite gyro rates) SEq has unit norm after every updateFilter call, after
\* any sequence of updates and resets.
C11_UnitNormAfterUpdate ==
    [][(Called("updateFilter") /\ ValidInput(args'))
          => UnitNorm(margFilter'.SEq)]_vars


\* No NaN in the members of OrientationState.
FiniteState(f) ==
    /\ Finite4(f.SEq) /\ Finite4(f.AEq)
    /\ \A x \in {f.w_bx, f.w_by, f.w_bz, f.b_x, f.b_z} : ~IsNaN(x)

\* The accelerometer or the magnetometer vector of the call is exactly (0,0,0).
ZeroVectorInput(in) == in # <<>> /\ (in[2] = Zero3 \/ in[3] = Zero3)

\* C12: an updateFilter call whose accelerometer or magnetometer vector is
\* exactly (0,0,0), made on a finite state, leaves SEq, the gyro bias and
\* b_x, b_z finite, with SEq of unit norm.
C12_ZeroVectorSkipped ==
    [][(Called("updateFilter") /\ ZeroVectorInput(args') /\ FiniteState(margFilter))
          => (FiniteState(margFilter') /\ UnitNorm(margFilter'.SEq))]_vars


\* The gradient J^T f that updateFilter computes for the readings in on the
\* state f, before it is normalised.
GradientOf(f, in) ==
    Then(Then(Then(Then(
        Locals(f, in[1][1], in[1][2], in[1][3], in[2][1], in[2][2], in[2][3],
               in[3][1], in[3][2], in[3][3]),
        NormaliseAccelerometer), NormaliseMagnetometer), Objective), Gradient)

\* The measurements agree with the estimate: the gradient is exactly zero.
ZeroGradient(f, in) ==
    /\ in # <<>>
    /\ \E e \in {GradientOf(f, in)} :
          /\ e.SEqHatDot_1 = 0 /\ e.SEqHatDot_2 = 0
          /\ e.SEqHatDot_3 = 0 /\ e.SEqHatDot_4 = 0

\* C13: an updateFilter call in which the gradient J^T f is exactly zero
\* leaves SEq and the gyro bias finite.
C13_ZeroGradientSkipped ==
    [][(Called("updateFilter") /\ ZeroGradient(margFilter, args'))
          => /\ Finite4(margFilter'.SEq)
             /\ \A x \in {margFilter'.w_bx, margFilter'.w_by, margFilter'.w_bz} :
                   ~IsNaN(x)]_vars


\* ---------------------------------------------------------------------------
\* Consistency of the values handed from one context to the other
\* ---------------------------------------------------------------------------

\* the step is a run of filter(), the callback of filterTicker
FilterRuns == "f" \in attached /\ due["f"] = 0 /\ due'["f"] # 0

\* C14: whenever the filter callback reads a sensor's averaged reading, the
\* three axis values were all written by one and the same sampler emission:
\* no sampler is between the first and the last of its three assignments.
C14_NoTornTriple ==
    [][FilterRuns => \A s \in Sensors : writing[s] = 0]_vars


\* C15: whenever the foreground loop has read roll, pitch and yaw, the three
\* values come from the same completed computeEuler call: when it reads yaw,
\* the last of the three, the roll and the pitch it holds are those of the
\* fusion cycle the yaw comes from.
C15_AnglesOfOneCycle ==
    [][(pc = "getYaw" /\ pc' = "printf")
          => /\ roll' = toDegrees(getRoll(margFilter))
             /\ pitch' = toDegrees(getPitch(margFilter))
             /\ yaw' = toDegrees(getYaw(margFilter))]_vars


\* ---------------------------------------------------------------------------
\* computeEuler
\* ---------------------------------------------------------------------------

\* r is the identity quaternion (1,0,0,0), the real part up to the rounding
\* of the four squares it is the sum of.
IsIdentity(r) == Abs(r[1] - SCALE) <= 4 /\ r[2] = 0 /\ r[3] = 0 /\ r[4] = 0

\* C16: Euler angles are relative to the auxiliary frame: for every unit
\* quaternion q, when SEq = AEq = q the relative quaternion conj(SEq) * AEq
\* computed by computeEuler is the identity and roll, pitch and yaw are 0.
C16_RelativeToAuxiliaryFrame ==
    [][(Called("computeEuler") /\ margFilter.SEq = margFilter.AEq
            /\ UnitNorm(margFilter.SEq))
          => /\ IsIdentity(RelativeQuaternion(margFilter))
             /\ getRoll(margFilter') = ZeroAngle
             /\ getPitch(margFilter') = ZeroAngle
             /\ getYaw(margFilter') = ZeroAngle]_vars

\* computeEuler has run on an estimate that is far from the identity and
\* equals the auxiliary frame
C16_Witness ==
    /\ op = "computeEuler"
    /\ margFilter.SEq = margFilter.AEq
    /\ UnitNorm(margFilter.SEq)
    /\ \A k \in 1..4 : Abs(margFilter.SEq[k]) >= 256
    /\ margFilter.SEq[1] < 0
    /\ getRoll(margFilter) = ZeroAngle


\* OrientationState after updateFilter is called on f with the readings in
UpdatedState(f, in) ==
    OrientationState(UpdateFilter(f, in[1][1], in[1][2], in[1][3],
                                     in[2][1], in[2][2], in[2][3],
                                     in[3][1], in[3][2], in[3][3]))

\* C17: computeEuler has no effect on OrientationState (SEq, AEq, the gyro
\* bias, b_x, b_z and firstUpdate), so the result of a later update is the
\* same with or without it; getRoll, getPitch and getYaw change no state of
\* the filter at all.
C17_ComputeEulerHasNoEffect ==
    [][/\ Called("computeEuler")
          => /\ OrientationState(margFilter') = OrientationState(margFilter)
             /\ \A in \in FilterInputs :
                   UpdatedState(margFilter', in) = UpdatedState(margFilter, in)
       /\ (Called("getRoll") \/ Called("getPitch") \/ Called("getYaw"))
          => margFilter' = margFilter]_vars

\* computeEuler has changed the angles of a filter that has left its
\* auxiliary frame, and a getter has been called since construction
C17_Witness ==
    /\ op = "computeEuler"
    /\ FiniteState(margFilter)
    /\ margFilter.SEq # margFilter.AEq
    /\ Defined(getRoll(margFilter)) /\ getRoll(margFilter) # ZeroAngle
    /\ roll = toDegrees(getRoll(margFilter))


\* ---------------------------------------------------------------------------
\* Bus faults
\* ---------------------------------------------------------------------------

\* the sampler of s has run and its read returned no sample
ReadFailed(s) == calls'[s] = calls[s] + 1 /\ batch'[s] = batch[s]

\* C18: when a sensor read fails with a bus I/O error inside a sampler
\* callback, the cycle is skipped: the sensor's running sums and its sample
\* count are unchanged by the callback.
C18_FailedReadSkipsCycle ==
    [][\A s \in Sensors :
          ReadFailed(s) => /\ Accumulator'[s] = Accumulator[s]
                           /\ Samples'[s] = Samples[s]]_vars


\* ---------------------------------------------------------------------------
\* ITG3200
\* ---------------------------------------------------------------------------

\* C19: getInternalSampleRate returns only 1 or 8: after the constructor and
\* after any setLpBandwidth(b) with b in 0..6, the device returning the
\* DLPF_FS value last written, the result is 8 when the low-pass code (bits
\* 2..0 of DLPF_FS) is 0 and 1 otherwise, never -1.
C19_SampleRateIsOneOrEight ==
    [][Called("getInternalSampleRate")
          => /\ returned' \in {1, 8}
             /\ returned' = 8 <=> registers.DLPF_FS % 8 = 0]_vars


\* ---------------------------------------------------------------------------
\* The first fusion cycles
\* ---------------------------------------------------------------------------

\* C20: every averaged reading the filter consumes was produced by a
\* completed batch of SAMPLES raw samples: with the configured periods the
\* filter callback never runs updateFilter on a sensor slot that its sampler
\* has not yet written.
C20_FilterReadsWrittenSlots ==
    [][FilterRuns => \A s \in Sensors : gen[s] > 0]_vars


\* ---------------------------------------------------------------------------
\* The gyro bias, the reference flux and the gains
\* ---------------------------------------------------------------------------

\* the persistent gyro-bias estimate
GyroBias(f) == <<f.w_bx, f.w_by, f.w_bz>>

\* C21: the gyro bias persists across updates and is zeroed only by reset;
\* with zeta = 0, as the program constructs the filter, an update with valid
\* inputs leaves a zero bias (0,0,0), so that the bias is (0,0,0) after any
\* sequence of updates with valid inputs.
C21_BiasStaysZero ==
    [][/\ (Called("updateFilter") /\ ValidInput(args') /\ margFilter.zeta = 0
              /\ GyroBias(margFilter) = Zero3)
          => GyroBias(margFilter') = Zero3
       /\ Called("computeEuler") => GyroBias(margFilter') = GyroBias(margFilter)
       /\ Called("reset") => GyroBias(margFilter') = Zero3]_vars


\* <<b_x, b_z>> as the end of updateFilter computes it from the estimate q
\* and the magnetometer input m as passed (before it is normalised)
ReferenceFluxOf(q, m) ==
    CHOOSE b \in
        { <<e.b_x, e.b_z>> :
            e \in { Then(Then(Then(
                [ SEq_1 |-> q[1], SEq_2 |-> q[2], SEq_3 |-> q[3], SEq_4 |-> q[4],
                  twom_x |-> Mul(Two, m[1]), twom_y |-> Mul(Two, m[2]),
                  twom_z |-> Mul(Two, m[3]),
                  SEq_1SEq_3 |-> 0, SEq_2SEq_4 |-> 0, b_x |-> 0, b_z |-> 0 ],
                Products), Flux), ReferenceFlux) } } : TRUE

\* no update has happened since construction or reset
NoUpdateYet == args = <<>> \/ freshReset

\* the flux the next update's residuals use is the one the last update
\* computed from its renormalised SEq and its magnetometer input as passed,
\* or (1, 0) when no update has happened since construction or reset
FluxOfLastUpdate ==
    <<margFilter.b_x, margFilter.b_z>> =
        IF NoUpdateYet THEN <<FromInt(1), 0>>
        ELSE ReferenceFluxOf(margFilter.SEq, args[3])

\* C22: the magnetic residuals of update k use the reference flux computed
\* at the end of update k-1, or (1, 0) when no update has happened since
\* construction or reset; every update ends by recomputing
\* b_x = sqrt(h_x^2 + h_y^2) >= 0 and b_z = h_z from the renormalised SEq and
\* the un-normalised magnetometer input of that same update.
C22_FluxOfPreviousUpdate ==
    FluxOfLastUpdate /\ margFilter.b_x >= 0


\* sqrt(3/4) * pi * error / 180, the gain for a measurement error in degrees
\* per second
GainOf(error) ==
    Mul(Sqrt(Div(FromInt(3), FromInt(4))), Mul(PI, Div(error, FromInt(180))))

\* a period in milliseconds, in seconds
Seconds(ms) == RoundDiv(ms * SCALE, 1000)

\* C23: the gains beta and zeta and the step deltat are fixed at
\* construction (beta = sqrt(3/4)*pi*gyroMeasError/180, zeta likewise from
\* gyroMeasDrift, deltat = rate): no updateFilter, computeEuler or reset call
\* changes them, and deltat equals the period at which the filter callback
\* is scheduled.
C23_GainsFixedAtConstruction ==
    /\ [](/\ margFilter.deltat = FilterDeltat
          /\ margFilter.beta = GainOf(GyroMeasError)
          /\ margFilter.zeta = GainOf(GyroMeasDrift)
          /\ margFilter.deltat = Seconds(Period("f")))
    /\ [][<<margFilter.beta, margFilter.zeta, margFilter.deltat>>'
             = <<margFilter.beta, margFilter.zeta, margFilter.deltat>>]_vars

\* the filter has been updated and then reset, and its gain is as constructed
C23_Witness ==
    /\ op = "reset"
    /\ args # <<>>
    /\ nCalls >= 3
    /\ margFilter.beta = GainOf(GyroMeasError)
    /\ margFilter.beta > 0


\* ---------------------------------------------------------------------------
\* The cadence of the samplers
\* ---------------------------------------------------------------------------

\* C24: a sampler invocation that finds its sample count equal to N emits
\* the averaged reading and resets the accumulator without reading the
\* sensor, and every other invocation reads exactly one sample and emits
\* nothing; hence each sensor's slot is overwritten exactly once in every
\* N+1 consecutive invocations of its callback: an emission follows exactly
\* N invocations that emit nothing, and no N+1 invocations go by without one.
C24_OneEmissionInFive ==
    /\ [](\A s \in Sensors : calls[s] <= SAMPLES)
    /\ [][\A s \in Sensors :
              Invoked(s) =>
                  IF Samples[s] = SAMPLES
                  THEN /\ Emits(s)
                       /\ calls[s] = SAMPLES
                       /\ Accumulator'[s] = Zero3
                       /\ Samples'[s] = 0
                       /\ batch'[s] = <<>>
                       /\ disturbed' = disturbed
                  ELSE /\ ~Emits(s)
                       /\ Reading'[s] = Reading[s]
                       /\ Samples'[s] = Samples[s] + 1
                       /\ Len(batch'[s]) = Len(batch[s]) + 1
                       /\ calls'[s] = calls[s] + 1]_vars

\* the accelerometer has just emitted and started over, while the
\* magnetometer has been invoked N times since its first emission
C24_Witness ==
    /\ gen["a"] = 2 /\ calls["a"] = 0 /\ Samples["a"] = 0
    /\ gen["m"] = 1 /\ calls["m"] = SAMPLES
    /\ gen["w"] > 0


\* C25: the raw values a sampler adds to the sums of its sensor are the
\* ones its own sensor returned in that invocation, whatever callback of
\* another ticker ran since it read them into the shared buffer readings.
C25_SumsReceiveOwnValues ==
    [][\A s \in {"a", "m"} :
          (taking[s] /\ ~taking'[s])
              => Accumulator'[s] = Add3(Accumulator[s], batch[s][Len(batch[s])])]_vars


\* C26: for every unit-norm SEq and AEq the argument computeEuler passes to
\* asin, 2*ASq_2*ASq_3 - 2*ASq_1*ASq_3, lies in [-1, 1], so the pitch that
\* getPitch returns after it is a defined angle.
C26_PitchDefined ==
    [][(Called("computeEuler") /\ UnitNorm(margFilter.SEq)
            /\ UnitNorm(margFilter.AEq))
          => Defined(getPitch(margFilter'))]_vars


====
